---- MODULE Spec2Model ----
(***************************************************************************)
(* A model of app.py: the Sophia front end's token cache, search-result    *)
(* cache and photo fan-out, as run by concurrently served Flask requests.  *)
(* Text is a sequence of one-character strings; time is in whole seconds.  *)
(***************************************************************************)
EXTENDS Integers, Sequences, FiniteSets, TLC

VARIABLES
    now,              \* time.time()
    ticks_left,       \* how often the clock may still advance
    reqs_left,        \* how many requests may still arrive
    api_token_cache,  \* [token, expires_at]
    search_cache,     \* cache_key -> entry, NoEntry when the key is absent
    pc,               \* each request thread's position in its handler
    termo_busca,      \* buscar_aluno: the stripped search string
    token,            \* the handler's local token
    new_token,        \* get_sophia_token: the body of the login response
    people,           \* alunos_filtrados / the authorized persons of a detail
    futures,          \* the executor's futures, in submission order
    collected,        \* how many futures the handler has taken the result of
    fotos_mapeadas,   \* codigo -> foto_uri, pairs kept as a function
    detail,           \* detalhes_aluno: aluno_id, aluno_nome, aluno_foto_uri, regras_saida
    resp,             \* the response of the finished request
    calls,            \* upstream calls issued by the current request, by kind
    totals            \* calls issued since the process started, by kind

vars == <<now, ticks_left, reqs_left, api_token_cache, search_cache, pc, termo_busca, token,
          new_token, people, futures, collected, fotos_mapeadas, detail, resp, calls,
          totals>>

----------------------------------------------------------------------------
\* Bounds of the model

\* concurrent requests (Spec)
MaxTicks == 1

MaxRequests == 2

\* one request after another (SpecSeq)
SeqMaxTicks == 2

SeqMaxRequests == 3

\* detail pages (SpecDetail)
DetailMaxRequests == 2

\* the identifiers of a fan-out past the worker bound (SpecFanout)
MaxFanout == 11

\* searches through the name filter (SpecFilter)
FilterMaxRequests == 2

\* searches for two names and detail pages (SpecFrame)
FrameMaxRequests == 3

\* Program constants

CACHE_DURATION_SECONDS == 60

TOKEN_VALIDITY_SECONDS == 29 * 60

MAX_WORKERS == 10

Threads == {1, 2}

None == "None"

NoEntry == [absent |-> TRUE]

----------------------------------------------------------------------------
\* Text

Ana == <<"A", "n", "a">>

ana == <<"a", "n", "a">>

Jose == <<"J", "o", "s", "e_acute">>

AnaSilva == <<"A", "n", "a", " ", "S", "i", "l", "v", "a">>

AnaCosta == <<"A", "n", "a", " ", "C", "o", "s", "t", "a">>

SilvaAna == <<"S", "i", "l", "v", "a", " ", "A", "n", "a">>

ana_costa == <<"a", "n", "a", " ", " ", "c", "o", "s", "t", "a">>

jose == <<"j", "o", "s", "e">>

Blank == <<" ", " ">>

IsSpace(c) == c = " "

\* str.lower(), one character
LowerChar(c) ==
    CASE c = "A" -> "a"
      [] c = "C" -> "c"
      [] c = "J" -> "j"
      [] c = "S" -> "s"
      [] c = "E_acute" -> "e_acute"
      [] OTHER -> c

Lower(s) == [i \in 1..Len(s) |-> LowerChar(s[i])]

\* unicodedata.normalize('NFKD', .), one character: a base letter and its mark
NFKDChar(c) ==
    CASE c = "e_acute" -> <<"e", "acute_mark">>
      [] c = "E_acute" -> <<"E", "acute_mark">>
      [] OTHER -> <<c>>

Combining(c) == c = "acute_mark"

RECURSIVE NFKD(_)
NFKD(s) == IF s = <<>> THEN <<>> ELSE NFKDChar(Head(s)) \o NFKD(Tail(s))

normalizar_texto(texto) ==
    IF texto = <<>> THEN <<>>
    ELSE SelectSeq(NFKD(Lower(texto)), LAMBDA c : ~Combining(c))

RECURSIVE LStrip(_)
LStrip(s) == IF s # <<>> /\ IsSpace(Head(s)) THEN LStrip(Tail(s)) ELSE s

RECURSIVE RStrip(_)
RStrip(s) ==
    IF s # <<>> /\ IsSpace(s[Len(s)]) THEN RStrip(SubSeq(s, 1, Len(s) - 1)) ELSE s

Strip(s) == RStrip(LStrip(s))

\* str.split(): the maximal runs of non-space characters
RECURSIVE SplitFrom(_, _)
SplitFrom(s, word) ==
    IF s = <<>> THEN (IF word = <<>> THEN <<>> ELSE <<word>>)
    ELSE IF IsSpace(Head(s))
         THEN (IF word = <<>> THEN <<>> ELSE <<word>>) \o SplitFrom(Tail(s), <<>>)
         ELSE SplitFrom(Tail(s), Append(word, Head(s)))

Split(s) == SplitFrom(s, <<>>)

\* `term in nome`
Contains(term, nome) ==
    \E i \in 0..(Len(nome) - Len(term)) : SubSeq(nome, i + 1, i + Len(term)) = term

\* Python truthiness of a string-or-None value
Truthy(v) == v # None /\ v # ""

----------------------------------------------------------------------------
\* Upstream records and the inputs of the model

Aluno(c, n) == [codigo |-> c, nome |-> n]

Pessoa(c, n, aut, vinc) ==
    [codigo |-> c, nome |-> n, retiradaAutorizada |-> aut, tipoVinculo |-> vinc]

\* request.form['nome_aluno']
Queries == {Ana, ana, Jose}

\* search strings of several words, in another order than the names, without
\* the accent, and empty ones
FilterQueries == {Ana, SilvaAna, ana_costa, jose, Blank, <<>>}

Keys == {Lower(Strip(q)) : q \in Queries \cup FilterQueries}

\* a GET /Alunos answer that lists one student twice
FilterAlunos ==
    <<Aluno(1, AnaSilva), Aluno(2, Jose), Aluno(3, AnaCosta), Aluno(1, AnaSilva)>>

\* GET /Alunos answers
ApiAlunos ==
    { <<>>,
      <<Aluno(1, AnaSilva), Aluno(2, Jose)>>,
      <<Aluno(1, AnaSilva), Aluno(3, AnaCosta)>> }

\* a long answer, for the fan-out past the worker bound
ManyAlunos == [i \in 1..MaxFanout |-> Aluno(i, AnaSilva)]

AlunoIds == {1}

\* GET /alunos/{id}/responsaveis answers
ApiResponsaveis ==
    { <<>>,
      <<Pessoa(5, AnaCosta, TRUE, "Mae"), Pessoa(6, Jose, TRUE, None),
        Pessoa(7, Jose, FALSE, "Pai")>> }

ManyResponsaveis == [i \in 1..MaxFanout |-> Pessoa(i, Jose, TRUE, "Pai")]

\* GET /alunos/{id}/AutorizacaoRetirada answers: the six rules, kept as one value
ApiAutorizacao ==
    { [regras |-> "rules", outrasPessoas |-> <<>>],
      [regras |-> "rules", outrasPessoas |-> <<Pessoa(6, AnaSilva, FALSE, None)>>] }

\* dados_autorizacao.get(., default) on an answer without the expected keys
AutorizacaoDefaults == [regras |-> "defaults", outrasPessoas |-> <<>>]

\* 'Aluno nao encontrado', the default of dados_aluno.get('nome', .)
NaoEncontrado == <<"?">>

ApiNomes == {AnaSilva}

\* how a data call ends: it raises a RequestException, or answers with an error
\* status, or answers with the body
Raised == [status |-> "exception"]

HttpError == [status |-> "http_error"]

Ok(body) == [status |-> "ok", body |-> body]

Answers(bodies) == {Ok(b) : b \in bodies}

\* POST /Autenticacao answers: a RequestException, or a body
LoginBodies == {"", "tokA", "tokB"}

LoginOutcomes == {"exception"} \cup LoginBodies

\* what a photo GET can do
PhotoOutcomes == {"exception", "non_200", "empty_body", "foto_null", "foto_empty", "foto"}

FotoRef(codigo) == "foto" \o ToString(codigo)

TickSteps == {1, CACHE_DURATION_SECONDS - 1, TOKEN_VALIDITY_SECONDS - 1}

----------------------------------------------------------------------------
\* State

NoResp == [kind |-> "none"]

NoDetail == [aluno_id |-> 0]

\* failed: the calls of this request that got an error HTTP answer
NewDetail(id) ==
    [aluno_id |-> id, resp_responsaveis |-> <<>>, dados_autorizacao |-> AutorizacaoDefaults,
     aluno_nome |-> <<>>, aluno_foto_uri |-> None, failed |-> {}]

NoCalls == [token |-> 0, login |-> 0, search |-> 0, foto |-> 0]

NoFotos == [c \in {} |-> None]

\* the module's globals as loaded, every thread idle; the run's budget of clock
\* advances and requests
Start(max_ticks, max_requests) ==
    /\ now = 0
    /\ ticks_left = max_ticks
    /\ reqs_left = max_requests
    /\ api_token_cache = [token |-> None, expires_at |-> 0]
    /\ search_cache = [k \in Keys |-> NoEntry]
    /\ pc = [t \in Threads |-> "idle"]
    /\ termo_busca = [t \in Threads |-> <<>>]
    /\ token = [t \in Threads |-> None]
    /\ new_token = [t \in Threads |-> None]
    /\ people = [t \in Threads |-> <<>>]
    /\ futures = [t \in Threads |-> <<>>]
    /\ collected = [t \in Threads |-> 0]
    /\ fotos_mapeadas = [t \in Threads |-> NoFotos]
    /\ detail = [t \in Threads |-> NoDetail]
    /\ resp = [t \in Threads |-> NoResp]
    /\ calls = [t \in Threads |-> NoCalls]
    /\ totals = [token |-> 0, login |-> 0, search |-> 0]

IsDetail(t) == detail[t] # NoDetail

\* a key that keeps the case of the search string
cache_key_Raw(t) == termo_busca[t]

cache_key(t) == Lower(termo_busca[t])

clockVars == <<now, ticks_left>>

cacheVars == <<api_token_cache, search_cache>>

fanoutVars == <<futures, collected, fotos_mapeadas>>

\* time passes
Tick(d) ==
    /\ ticks_left > 0
    /\ now' = now + d
    /\ ticks_left' = ticks_left - 1
    /\ UNCHANGED <<reqs_left, cacheVars, pc, termo_busca, token, new_token, people,
                   fanoutVars, detail, resp, calls, totals>>

----------------------------------------------------------------------------
\* get_sophia_token

\* a validity test that forgets the expiry
TokenValid_NoExpiry == Truthy(api_token_cache.token)

\* line 40: the stored token is usable
TokenValid == Truthy(api_token_cache.token) /\ now < api_token_cache.expires_at

\* a handler that goes on to its data calls whatever it got
AfterToken_Regardless(t, tok) == IF IsDetail(t) THEN "d_resp" ELSE "b_search"

\* where a handler goes with the token it got (lines 107-109, 159-161)
AfterToken(t, tok) ==
    IF ~Truthy(tok) THEN "done"
    ELSE IF IsDetail(t) THEN "d_resp" ELSE "b_search"

AuthErrorResp(t) ==
    IF IsDetail(t)
    THEN [kind |-> "redirect", flash |-> "error"]
    ELSE [kind |-> "index", flash |-> "error", from_cache |-> FALSE,
          data |-> [alunos |-> <<>>]]

\* the caller's `token = get_sophia_token()` and its `if not token`
ReturnToken(t, tok) ==
    /\ token' = [token EXCEPT ![t] = tok]
    /\ pc' = [pc EXCEPT ![t] = AfterToken(t, tok)]
    /\ resp' = [resp EXCEPT ![t] = IF Truthy(tok) THEN resp[t] ELSE AuthErrorResp(t)]

\* line 40, and on a miss the POST of line 46 goes out
GetToken_Check(t) ==
    /\ pc[t] = "g_check"
    /\ IF TokenValid
       THEN /\ pc' = [pc EXCEPT ![t] = "g_ret"]
            /\ calls' = [calls EXCEPT ![t].token = @ + 1]
            /\ totals' = [totals EXCEPT !.token = @ + 1]
       ELSE /\ pc' = [pc EXCEPT ![t] = "g_post"]
            /\ calls' = [calls EXCEPT ![t].token = @ + 1, ![t].login = @ + 1]
            /\ totals' = [totals EXCEPT !.token = @ + 1, !.login = @ + 1]
    /\ UNCHANGED <<clockVars, reqs_left, cacheVars, termo_busca, token, new_token, people,
                   fanoutVars, detail, resp>>

\* line 41
GetToken_ReturnCached(t) ==
    /\ pc[t] = "g_ret"
    /\ ReturnToken(t, api_token_cache.token)
    /\ UNCHANGED <<clockVars, reqs_left, cacheVars, termo_busca, new_token, people,
                   fanoutVars, detail, calls, totals>>

\* lines 46-49, 54-56: the login answers
GetToken_LoginResponse(t, outcome) ==
    /\ pc[t] = "g_post"
    /\ IF outcome = "exception"
       THEN /\ ReturnToken(t, None)
            /\ UNCHANGED new_token
       ELSE /\ new_token' = [new_token EXCEPT ![t] = outcome]
            /\ pc' = [pc EXCEPT ![t] = "g_set_token"]
            /\ UNCHANGED <<token, resp>>
    /\ UNCHANGED <<clockVars, reqs_left, cacheVars, termo_busca, people, fanoutVars,
                   detail, calls, totals>>

\* line 50
GetToken_StoreToken(t) ==
    /\ pc[t] = "g_set_token"
    /\ api_token_cache' = [api_token_cache EXCEPT !.token = new_token[t]]
    /\ pc' = [pc EXCEPT ![t] = "g_set_expiry"]
    /\ UNCHANGED <<clockVars, reqs_left, search_cache, termo_busca, token, new_token,
                   people, fanoutVars, detail, resp, calls, totals>>

\* lines 51-53
GetToken_StoreExpiry(t) ==
    /\ pc[t] = "g_set_expiry"
    /\ api_token_cache' =
           [api_token_cache EXCEPT !.expires_at = now + TOKEN_VALIDITY_SECONDS]
    /\ ReturnToken(t, new_token[t])
    /\ UNCHANGED <<clockVars, reqs_left, search_cache, termo_busca, new_token, people,
                   fanoutVars, detail, calls, totals>>

----------------------------------------------------------------------------
\* The photo fan-out (lines 58-80, 130-135, 206-211)

\* buscar_foto: what it returns for each thing the GET can do
buscar_foto(outcome, codigo) ==
    CASE outcome = "foto" -> FotoRef(codigo)
      [] outcome = "foto_empty" -> ""
      [] OTHER -> None

\* the elements of a set of numbers in increasing order
SortedSeq(S) ==
    [i \in 1..Cardinality(S) |->
        CHOOSE x \in S : Cardinality({y \in S : y < x}) = i - 1]

\* line 129, and line 202: a set of the truthy codes, iterated in hash order,
\* which for small integers is increasing order
Codigos(t) ==
    IF IsDetail(t)
    THEN SortedSeq({people[t][i].codigo : i \in 1..Len(people[t])} \ {0})
    ELSE [i \in 1..Len(people[t]) |-> people[t][i].codigo]

Running(t) == {i \in 1..Len(futures[t]) : futures[t][i].st = "running"}

Queued(t) == {i \in 1..Len(futures[t]) : futures[t][i].st = "queued"}

AfterFanout(t) == IF IsDetail(t) THEN "d_render" ELSE "b_store"

\* a pool that starts a thread for every work item
WorkerFree_Unbounded(t) == TRUE

\* the pool runs no more than max_workers work items at a time
WorkerFree(t) == Cardinality(Running(t)) < MAX_WORKERS

\* a result taken without waiting for the work item
FutureDone_NoWait(t, i) == TRUE

\* future.result() returns once the work item has run
FutureDone(t, i) == futures[t][i].st = "done"

\* executor.submit of the next code (lines 131, 207)
Submit(t) ==
    /\ pc[t] = "submit"
    /\ LET cs == Codigos(t)
           i == Len(futures[t]) + 1
       IN /\ futures' = [futures EXCEPT ![t] =
                 Append(@, [codigo |-> cs[i], st |-> "queued", foto |-> None])]
          /\ pc' = [pc EXCEPT ![t] = IF i = Len(cs) THEN "collect" ELSE "submit"]
    /\ UNCHANGED <<clockVars, reqs_left, cacheVars, termo_busca, token, new_token, people,
                   collected, fotos_mapeadas, detail, resp, calls, totals>>

\* a worker takes the oldest queued work item and sends its GET
Worker_Start(t, i) ==
    /\ i \in Queued(t)
    /\ \A j \in Queued(t) : i <= j
    /\ WorkerFree(t)
    /\ futures' = [futures EXCEPT ![t][i].st = "running"]
    /\ calls' = [calls EXCEPT ![t].foto = @ + 1]
    /\ UNCHANGED <<clockVars, reqs_left, cacheVars, pc, termo_busca, token, new_token,
                   people, collected, fotos_mapeadas, detail, resp, totals>>

\* the GET ends, one way or another (lines 60-66, 72-73)
Worker_Finish(t, i, outcome) ==
    /\ i \in Running(t)
    /\ futures' = [futures EXCEPT ![t][i].st = "done",
                                  ![t][i].foto = buscar_foto(outcome, futures[t][i].codigo)]
    /\ UNCHANGED <<clockVars, reqs_left, cacheVars, pc, termo_busca, token, new_token,
                   people, collected, fotos_mapeadas, detail, resp, calls, totals>>

\* a collection that throws the photos found so far away when one lookup fails
Collect_ResetOnFailure(t) ==
    /\ pc[t] = "collect"
    /\ LET i == collected[t] + 1
           f == futures[t][i]
       IN /\ futures[t][i].st = "done"
          /\ collected' = [collected EXCEPT ![t] = i]
          /\ fotos_mapeadas' = [fotos_mapeadas EXCEPT ![t] =
                 IF Truthy(f.foto)
                 THEN [c \in DOMAIN @ \cup {f.codigo} |->
                          IF c = f.codigo THEN f.foto ELSE @[c]]
                 ELSE NoFotos]
          /\ pc' = [pc EXCEPT ![t] =
                 IF i = Len(futures[t]) THEN AfterFanout(t) ELSE "collect"]
    /\ UNCHANGED <<clockVars, reqs_left, cacheVars, termo_busca, token, new_token, people,
                   futures, detail, resp, calls, totals>>

\* lines 132-135, 208-211: the next future's result; after the last one the
\* `with` block ends
Collect(t) ==
    /\ pc[t] = "collect"
    /\ LET i == collected[t] + 1
           f == futures[t][i]
       IN /\ FutureDone(t, i)
          /\ collected' = [collected EXCEPT ![t] = i]
          /\ fotos_mapeadas' = [fotos_mapeadas EXCEPT ![t] =
                 IF Truthy(f.foto)
                 THEN [c \in DOMAIN @ \cup {f.codigo} |->
                          IF c = f.codigo THEN f.foto ELSE @[c]]
                 ELSE @]
          /\ pc' = [pc EXCEPT ![t] =
                 IF i = Len(futures[t]) THEN AfterFanout(t) ELSE "collect"]
    /\ UNCHANGED <<clockVars, reqs_left, cacheVars, termo_busca, token, new_token, people,
                   futures, detail, resp, calls, totals>>

\* fotos_mapeadas.get(codigo)
FotoDe(t, codigo) ==
    IF codigo \in DOMAIN fotos_mapeadas[t] THEN fotos_mapeadas[t][codigo] ELSE None

----------------------------------------------------------------------------
\* buscar_aluno

\* an expiry test that still serves the entry at its expiry instant
CacheHit_Inclusive(key) ==
    /\ search_cache[key] # NoEntry
    /\ now <= search_cache[key].expires_at

\* line 102
CacheHit(key) ==
    /\ search_cache[key] # NoEntry
    /\ now < search_cache[key].expires_at

\* a check that deletes the entry it finds expired
Buscar_CheckCache_Evict(t, nome_aluno) ==
    /\ pc[t] = "idle"
    /\ reqs_left > 0
    /\ reqs_left' = reqs_left - 1
    /\ termo_busca' = [termo_busca EXCEPT ![t] = Strip(nome_aluno)]
    /\ calls' = [calls EXCEPT ![t] = NoCalls]
    /\ pc' = [pc EXCEPT ![t] =
           IF CacheHit(Lower(Strip(nome_aluno))) THEN "b_hit" ELSE "g_check"]
    /\ search_cache' =
           IF CacheHit(Lower(Strip(nome_aluno))) THEN search_cache
           ELSE [search_cache EXCEPT ![Lower(Strip(nome_aluno))] = NoEntry]
    /\ UNCHANGED <<clockVars, api_token_cache, token, new_token, people, fanoutVars,
                   detail, resp, totals>>

\* lines 99-102: the request arrives and the cache is consulted
Buscar_CheckCache(t, nome_aluno) ==
    /\ pc[t] = "idle"
    /\ reqs_left > 0
    /\ reqs_left' = reqs_left - 1
    /\ termo_busca' = [termo_busca EXCEPT ![t] = Strip(nome_aluno)]
    /\ calls' = [calls EXCEPT ![t] = NoCalls]
    /\ pc' = [pc EXCEPT ![t] =
           IF CacheHit(Lower(Strip(nome_aluno))) THEN "b_hit" ELSE "g_check"]
    /\ UNCHANGED <<clockVars, cacheVars, token, new_token, people, fanoutVars,
                   detail, resp, totals>>

\* a hit that renews the entry it serves
Buscar_ReturnCached_Refresh(t) ==
    /\ pc[t] = "b_hit"
    /\ resp' = [resp EXCEPT ![t] =
           [kind |-> "index", flash |-> "none", from_cache |-> TRUE,
            data |-> search_cache[cache_key(t)].data]]
    /\ search_cache' = [search_cache EXCEPT ![cache_key(t)].expires_at =
           now + CACHE_DURATION_SECONDS]
    /\ pc' = [pc EXCEPT ![t] = "done"]
    /\ UNCHANGED <<clockVars, reqs_left, api_token_cache, termo_busca, token, new_token,
                   people, fanoutVars, detail, calls, totals>>

\* line 104
Buscar_ReturnCached(t) ==
    /\ pc[t] = "b_hit"
    /\ resp' = [resp EXCEPT ![t] =
           [kind |-> "index", flash |-> "none", from_cache |-> TRUE,
            data |-> search_cache[cache_key(t)].data]]
    /\ pc' = [pc EXCEPT ![t] = "done"]
    /\ UNCHANGED <<clockVars, reqs_left, cacheVars, termo_busca, token, new_token, people,
                   fanoutVars, detail, calls, totals>>

\* a filter that is content with one of the words
Matches_Any(nome, termos) ==
    \E i \in 1..Len(termos) : Contains(termos[i], normalizar_texto(nome))

\* line 125
Matches(nome, termos) ==
    \A i \in 1..Len(termos) : Contains(termos[i], normalizar_texto(nome))

\* lines 121-126
Filtrar(alunos_da_api, termo) ==
    LET parts == Split(termo)
        termos_normalizados == [i \in 1..Len(parts) |-> normalizar_texto(parts[i])]
    IN SelectSeq(alunos_da_api, LAMBDA aluno : Matches(aluno.nome, termos_normalizados))

\* a search that caches the empty list it shows after a failed call
Buscar_SearchResponse_CachesFailure(t, outcome) ==
    /\ pc[t] = "b_search"
    /\ calls' = [calls EXCEPT ![t].search = @ + 1]
    /\ totals' = [totals EXCEPT !.search = @ + 1]
    /\ IF outcome.status # "ok"
       THEN /\ resp' = [resp EXCEPT ![t] =
                   [kind |-> "index", flash |-> "error", from_cache |-> FALSE,
                    data |-> [alunos |-> <<>>]]]
            /\ search_cache' = [search_cache EXCEPT ![cache_key(t)] =
                   [data |-> [alunos |-> <<>>, busca_anterior |-> termo_busca[t]],
                    expires_at |-> now + CACHE_DURATION_SECONDS]]
            /\ pc' = [pc EXCEPT ![t] = "done"]
            /\ UNCHANGED people
       ELSE LET alunos_filtrados == Filtrar(outcome.body, termo_busca[t])
            IN /\ people' = [people EXCEPT ![t] = alunos_filtrados]
               /\ pc' = [pc EXCEPT ![t] =
                      IF alunos_filtrados = <<>> THEN "b_store" ELSE "submit"]
               /\ UNCHANGED <<resp, search_cache>>
    /\ UNCHANGED <<clockVars, reqs_left, api_token_cache, termo_busca, token, new_token,
                   fanoutVars, detail>>

\* lines 117-129, 151-153: the search call answers
Buscar_SearchResponse(t, outcome) ==
    /\ pc[t] = "b_search"
    /\ calls' = [calls EXCEPT ![t].search = @ + 1]
    /\ totals' = [totals EXCEPT !.search = @ + 1]
    /\ IF outcome.status # "ok"
       THEN /\ resp' = [resp EXCEPT ![t] =
                   [kind |-> "index", flash |-> "error", from_cache |-> FALSE,
                    data |-> [alunos |-> <<>>]]]
            /\ pc' = [pc EXCEPT ![t] = "done"]
            /\ UNCHANGED people
       ELSE LET alunos_filtrados == Filtrar(outcome.body, termo_busca[t])
            IN /\ people' = [people EXCEPT ![t] = alunos_filtrados]
               /\ pc' = [pc EXCEPT ![t] =
                      IF alunos_filtrados = <<>> THEN "b_store" ELSE "submit"]
               /\ UNCHANGED resp
    /\ UNCHANGED <<clockVars, reqs_left, cacheVars, termo_busca, token, new_token,
                   fanoutVars, detail>>

\* lines 137-138
ComFotos(t) ==
    [i \in 1..Len(people[t]) |->
        [codigo |-> people[t][i].codigo, nome |-> people[t][i].nome,
         foto_uri |-> FotoDe(t, people[t][i].codigo)]]

\* an entry that lives one second less
ExpiresAt_Short == now + CACHE_DURATION_SECONDS - 1

\* line 146
ExpiresAt == now + CACHE_DURATION_SECONDS

\* a store that caches complete results only
Buscar_Store_SkipIncomplete(t) ==
    /\ pc[t] = "b_store"
    /\ LET template_data == [alunos |-> ComFotos(t), busca_anterior |-> termo_busca[t]]
       IN /\ search_cache' =
                 IF \E i \in 1..Len(people[t]) : FotoDe(t, people[t][i].codigo) = None
                 THEN search_cache
                 ELSE [search_cache EXCEPT ![cache_key(t)] =
                          [data |-> template_data, expires_at |-> ExpiresAt]]
          /\ resp' = [resp EXCEPT ![t] =
                 [kind |-> "index", from_cache |-> FALSE, data |-> template_data,
                  flash |-> IF people[t] = <<>> THEN "info" ELSE "none"]]
    /\ pc' = [pc EXCEPT ![t] = "done"]
    /\ UNCHANGED <<clockVars, reqs_left, api_token_cache, termo_busca, token, new_token,
                   people, fanoutVars, detail, calls, totals>>

\* a store that keeps nothing but the entry it writes
Buscar_Store_OnlyLatest(t) ==
    /\ pc[t] = "b_store"
    /\ LET template_data == [alunos |-> ComFotos(t), busca_anterior |-> termo_busca[t]]
       IN /\ search_cache' = [k \in Keys |->
                 IF k = cache_key(t)
                 THEN [data |-> template_data, expires_at |-> ExpiresAt]
                 ELSE NoEntry]
          /\ resp' = [resp EXCEPT ![t] =
                 [kind |-> "index", from_cache |-> FALSE, data |-> template_data,
                  flash |-> IF people[t] = <<>> THEN "info" ELSE "none"]]
    /\ pc' = [pc EXCEPT ![t] = "done"]
    /\ UNCHANGED <<clockVars, reqs_left, api_token_cache, termo_busca, token, new_token,
                   people, fanoutVars, detail, calls, totals>>

\* lines 137-149
Buscar_Store(t) ==
    /\ pc[t] = "b_store"
    /\ LET template_data == [alunos |-> ComFotos(t), busca_anterior |-> termo_busca[t]]
       IN /\ search_cache' = [search_cache EXCEPT ![cache_key(t)] =
                 [data |-> template_data, expires_at |-> ExpiresAt]]
          /\ resp' = [resp EXCEPT ![t] =
                 [kind |-> "index", from_cache |-> FALSE, data |-> template_data,
                  flash |-> IF people[t] = <<>> THEN "info" ELSE "none"]]
    /\ pc' = [pc EXCEPT ![t] = "done"]
    /\ UNCHANGED <<clockVars, reqs_left, api_token_cache, termo_busca, token, new_token,
                   people, fanoutVars, detail, calls, totals>>

\* the response is sent and the thread is free again
Return(t) ==
    /\ pc[t] = "done"
    /\ pc' = [pc EXCEPT ![t] = "idle"]
    /\ termo_busca' = [termo_busca EXCEPT ![t] = <<>>]
    /\ token' = [token EXCEPT ![t] = None]
    /\ new_token' = [new_token EXCEPT ![t] = None]
    /\ people' = [people EXCEPT ![t] = <<>>]
    /\ futures' = [futures EXCEPT ![t] = <<>>]
    /\ collected' = [collected EXCEPT ![t] = 0]
    /\ fotos_mapeadas' = [fotos_mapeadas EXCEPT ![t] = NoFotos]
    /\ detail' = [detail EXCEPT ![t] = NoDetail]
    /\ resp' = [resp EXCEPT ![t] = NoResp]
    /\ calls' = [calls EXCEPT ![t] = NoCalls]
    /\ UNCHANGED <<clockVars, reqs_left, cacheVars, totals>>

----------------------------------------------------------------------------
\* detalhes_aluno

DetailErrorResp == [kind |-> "redirect", flash |-> "error"]

\* lines 156-158
Detalhes_Start(t, aluno_id) ==
    /\ pc[t] = "idle"
    /\ reqs_left > 0
    /\ reqs_left' = reqs_left - 1
    /\ detail' = [detail EXCEPT ![t] = NewDetail(aluno_id)]
    /\ calls' = [calls EXCEPT ![t] = NoCalls]
    /\ pc' = [pc EXCEPT ![t] = "g_check"]
    /\ UNCHANGED <<clockVars, cacheVars, termo_busca, token, new_token, people,
                   fanoutVars, resp, totals>>

\* a data call of the detail page that raised: lines 228-230
Detalhes_Raise(t) ==
    /\ resp' = [resp EXCEPT ![t] = DetailErrorResp]
    /\ pc' = [pc EXCEPT ![t] = "done"]
    /\ UNCHANGED detail

\* lines 165-166; no raise_for_status: an error answer's JSON is taken as the list
Detalhes_Responsaveis(t, outcome) ==
    /\ pc[t] = "d_resp"
    /\ CASE outcome.status = "exception" -> Detalhes_Raise(t)
         [] outcome.status = "http_error" ->
               /\ detail' = [detail EXCEPT ![t].failed = @ \cup {"responsaveis"}]
               /\ pc' = [pc EXCEPT ![t] = "d_aut"]
               /\ UNCHANGED resp
         [] OTHER ->
               /\ detail' = [detail EXCEPT ![t].resp_responsaveis = outcome.body]
               /\ pc' = [pc EXCEPT ![t] = "d_aut"]
               /\ UNCHANGED resp
    /\ UNCHANGED <<clockVars, reqs_left, cacheVars, termo_busca, token, new_token, people,
                   fanoutVars, calls, totals>>

\* lines 168-169
Detalhes_Autorizacao(t, outcome) ==
    /\ pc[t] = "d_aut"
    /\ CASE outcome.status = "exception" -> Detalhes_Raise(t)
         [] outcome.status = "http_error" ->
               /\ detail' = [detail EXCEPT ![t].failed = @ \cup {"autorizacao"}]
               /\ pc' = [pc EXCEPT ![t] = "d_aluno"]
               /\ UNCHANGED resp
         [] OTHER ->
               /\ detail' = [detail EXCEPT ![t].dados_autorizacao = outcome.body]
               /\ pc' = [pc EXCEPT ![t] = "d_aluno"]
               /\ UNCHANGED resp
    /\ UNCHANGED <<clockVars, reqs_left, cacheVars, termo_busca, token, new_token, people,
                   fanoutVars, calls, totals>>

\* lines 171-173
Detalhes_Aluno(t, outcome) ==
    /\ pc[t] = "d_aluno"
    /\ CASE outcome.status = "exception" -> Detalhes_Raise(t)
         [] outcome.status = "http_error" ->
               /\ detail' = [detail EXCEPT ![t].failed = @ \cup {"aluno"},
                                           ![t].aluno_nome = NaoEncontrado]
               /\ pc' = [pc EXCEPT ![t] = "d_foto"]
               /\ UNCHANGED resp
         [] OTHER ->
               /\ detail' = [detail EXCEPT ![t].aluno_nome = outcome.body]
               /\ pc' = [pc EXCEPT ![t] = "d_foto"]
               /\ UNCHANGED resp
    /\ UNCHANGED <<clockVars, reqs_left, cacheVars, termo_busca, token, new_token, people,
                   fanoutVars, calls, totals>>

\* lines 186-199: parents first, then the others, then outrasPessoas
Autorizados(d) ==
    LET rs == d.resp_responsaveis
        aut == SelectSeq(rs, LAMBDA r : r.retiradaAutorizada)
        pais == SelectSeq(aut, LAMBDA r : r.tipoVinculo \in {"Pai", "Mae"})
        outras == SelectSeq(aut, LAMBDA r : r.tipoVinculo \notin {"Pai", "Mae"})
                      \o d.dados_autorizacao.outrasPessoas
        Grupo(ps, g) ==
            [i \in 1..Len(ps) |-> [grupo |-> g, codigo |-> ps[i].codigo, nome |-> ps[i].nome]]
    IN Grupo(pais, "pais_e_maes") \o Grupo(outras, "outras_pessoas")

\* lines 175-202: the student's own photo, in the request's thread, then the
\* lists; an error answer's JSON object is no list of records, and the loop of
\* line 189 raises an AttributeError that nothing catches
Detalhes_FotoAluno(t, outcome) ==
    /\ pc[t] = "d_foto"
    /\ calls' = [calls EXCEPT ![t].foto = @ + 1]
    /\ detail' = [detail EXCEPT ![t].aluno_foto_uri = buscar_foto(outcome, detail[t].aluno_id)]
    /\ IF "responsaveis" \in detail[t].failed
       THEN /\ resp' = [resp EXCEPT ![t] = [kind |-> "server_error", flash |-> "none"]]
            /\ pc' = [pc EXCEPT ![t] = "done"]
            /\ UNCHANGED people
       ELSE LET ps == Autorizados(detail[t])
            IN /\ people' = [people EXCEPT ![t] = ps]
               /\ pc' = [pc EXCEPT ![t] =
                      IF {ps[i].codigo : i \in 1..Len(ps)} \ {0} = {}
                      THEN "d_render" ELSE "submit"]
               /\ UNCHANGED resp
    /\ UNCHANGED <<clockVars, reqs_left, cacheVars, termo_busca, token, new_token,
                   fanoutVars, totals>>

\* lines 214-227
Detalhes_Render(t) ==
    /\ pc[t] = "d_render"
    /\ LET d == detail[t]
           com_foto == [i \in 1..Len(people[t]) |->
               [grupo |-> people[t][i].grupo, codigo |-> people[t][i].codigo,
                nome |-> people[t][i].nome, foto_uri |-> FotoDe(t, people[t][i].codigo)]]
           Lista(g) == SelectSeq(com_foto,
               LAMBDA p : p.grupo = g /\ Lower(p.nome) # Lower(d.aluno_nome))
       IN resp' = [resp EXCEPT ![t] =
              [kind |-> "detalhes", flash |-> "none", aluno_nome |-> d.aluno_nome,
               aluno_foto_uri |-> d.aluno_foto_uri,
               pais_e_maes |-> Lista("pais_e_maes"),
               outras_pessoas |-> Lista("outras_pessoas"),
               regras_saida |-> d.dados_autorizacao.regras]]
    /\ pc' = [pc EXCEPT ![t] = "done"]
    /\ UNCHANGED <<clockVars, reqs_left, cacheVars, termo_busca, token, new_token, people,
                   fanoutVars, detail, calls, totals>>

----------------------------------------------------------------------------------------------------------------------------------------
\* The steps of a request thread. The environment's choices are drawn from the
\* given sets: the search strings, and how each upstream call can end.

TokenStep(t, logins) ==
    \/ GetToken_Check(t)
    \/ GetToken_ReturnCached(t)
    \/ \E o \in logins : GetToken_LoginResponse(t, o)
    \/ GetToken_StoreToken(t)
    \/ GetToken_StoreExpiry(t)

FanoutStep(t, fotos) ==
    \/ Submit(t)
    \/ \E i \in 1..Len(futures[t]) : Worker_Start(t, i)
    \/ \E i \in 1..Len(futures[t]) : \E o \in fotos[futures[t][i].codigo] :
           Worker_Finish(t, i, o)
    \/ Collect(t)

SearchStep(t, queries, alunos) ==
    \/ \E q \in queries : Buscar_CheckCache(t, q)
    \/ Buscar_ReturnCached(t)
    \/ \E o \in alunos : Buscar_SearchResponse(t, o)
    \/ Buscar_Store(t)

DetailStep(t, ids, responsaveis, autorizacoes, nomes, fotos) ==
    \/ \E id \in ids : Detalhes_Start(t, id)
    \/ \E o \in responsaveis : Detalhes_Responsaveis(t, o)
    \/ \E o \in autorizacoes : Detalhes_Autorizacao(t, o)
    \/ \E o \in nomes : Detalhes_Aluno(t, o)
    \/ \E o \in fotos : Detalhes_FotoAluno(t, o)
    \/ Detalhes_Render(t)

\* Searches served concurrently by the server's threads
Init == Start(MaxTicks, MaxRequests)

Next ==
    \/ \E d \in {CACHE_DURATION_SECONDS - 1, CACHE_DURATION_SECONDS} : Tick(d)
    \/ \E t \in Threads :
        \/ TokenStep(t, LoginOutcomes)
        \/ SearchStep(t, {Ana, ana},
                      {Raised, HttpError, Ok(<<Aluno(1, AnaSilva), Aluno(2, Jose)>>)})
        \/ FanoutStep(t, [c \in {1, 2} |-> {"exception", "foto"}])
        \/ Return(t)

Spec == Init /\ [][Next]_vars

\* One thread serving searches one after another, the clock reaching the end
\* of an entry's and of the token's validity
InitSeq == Start(SeqMaxTicks, SeqMaxRequests)

SeqFotos ==
    [c \in 1..3 |-> CASE c = 1 -> {"foto"}
                      [] c = 2 -> {"foto", "exception"}
                      [] OTHER -> {"foto_empty"}]

NextSeq ==
    \/ \E d \in TickSteps : Tick(d)
    \/ TokenStep(1, {"exception", "tokA"})
    \/ SearchStep(1, Queries,
                  {Raised, Ok(<<Aluno(1, AnaSilva), Aluno(2, Jose)>>),
                   Ok(<<Aluno(1, AnaSilva), Aluno(3, AnaCosta)>>)})
    \/ FanoutStep(1, SeqFotos)
    \/ Return(1)

SpecSeq == InitSeq /\ [][NextSeq]_vars

\* The end-to-end scenario: one thread, searches for "Ana" one after another,
\* an upstream that answers every login and every search
NextAna ==
    \/ \E d \in {1, CACHE_DURATION_SECONDS - 1} : Tick(d)
    \/ TokenStep(1, {"tokA"})
    \/ SearchStep(1, {Ana}, {Ok(<<Aluno(1, AnaSilva), Aluno(2, Jose)>>)})
    \/ FanoutStep(1, SeqFotos)
    \/ Return(1)

SpecAna == InitSeq /\ [][NextAna]_vars

\* One thread, searches in both spellings and for another name, one after
\* another; the upstream answers every login and every search, photo lookups
\* may fail
NextKeys ==
    \/ \E d \in {1, CACHE_DURATION_SECONDS - 1} : Tick(d)
    \/ TokenStep(1, {"tokA"})
    \/ SearchStep(1, Queries, {Ok(<<Aluno(1, AnaSilva), Aluno(2, Jose)>>),
                               Ok(<<Aluno(1, AnaSilva), Aluno(3, AnaCosta)>>)})
    \/ FanoutStep(1, SeqFotos)
    \/ Return(1)

SpecKeys == InitSeq /\ [][NextKeys]_vars

\* One thread, searches with the strings that exercise the name filter, one
\* after another; every call is answered
InitFilter == Start(0, FilterMaxRequests)

NextFilter ==
    \/ TokenStep(1, {"tokA"})
    \/ SearchStep(1, FilterQueries, {Ok(FilterAlunos)})
    \/ FanoutStep(1, [c \in 1..3 |-> {"foto"}])
    \/ Return(1)

SpecFilter == InitFilter /\ [][NextFilter]_vars

\* One thread, searches for two names and detail pages, one after another;
\* logins and data calls may fail
InitFrame == Start(0, FrameMaxRequests)

NextFrame ==
    \/ TokenStep(1, {"exception", "tokA"})
    \/ SearchStep(1, {Ana, Jose}, {Raised, HttpError, Ok(<<Aluno(1, AnaSilva), Aluno(2, Jose)>>)})
    \/ DetailStep(1, AlunoIds,
                  {Raised, Ok(<<Pessoa(5, AnaCosta, TRUE, "Mae")>>)},
                  {Raised, Ok([regras |-> "rules", outrasPessoas |-> <<>>])},
                  {Raised, Ok(AnaSilva)}, {"foto"})
    \/ FanoutStep(1, [c \in 1..5 |-> {"foto"}])
    \/ Return(1)

SpecFrame == InitFrame /\ [][NextFrame]_vars

\* One thread serving detail pages, and searches, one after another
InitDetail == Start(0, DetailMaxRequests)

NextDetail ==
    \/ TokenStep(1, {"exception", "tokA"})
    \/ SearchStep(1, {Ana}, {Ok(<<Aluno(1, AnaSilva), Aluno(3, AnaCosta)>>)})
    \/ DetailStep(1, AlunoIds, {Raised, HttpError} \cup Answers(ApiResponsaveis),
                  {Raised, HttpError} \cup Answers(ApiAutorizacao),
                  {Raised, HttpError} \cup Answers(ApiNomes), PhotoOutcomes)
    \/ FanoutStep(1, [c \in 1..7 |-> PhotoOutcomes])
    \/ Return(1)

SpecDetail == InitDetail /\ [][NextDetail]_vars

\* One request on one thread, the answers long enough to take its fan-out past
\* the worker bound; the photo of code 2 may fail, the others are served
InitFanout == Start(0, 1)

FlakyFotos == [c \in 1..MaxFanout |-> IF c = 2 THEN {"exception", "foto"} ELSE {"foto"}]

NextFanout ==
    \/ GetToken_Check(1)
    \/ \E o \in {"exception", "tokA"} : GetToken_LoginResponse(1, o)
    \/ GetToken_StoreToken(1)
    \/ GetToken_StoreExpiry(1)
    \/ Buscar_CheckCache(1, Ana)
    \/ \E o \in {Raised, Ok(ManyAlunos)} : Buscar_SearchResponse(1, o)
    \/ Buscar_Store(1)
    \/ DetailStep(1, AlunoIds, {Raised, Ok(ManyResponsaveis)},
                  Answers({[regras |-> "rules", outrasPessoas |-> <<>>]}),
                  Answers(ApiNomes), {"foto"})
    \/ FanoutStep(1, FlakyFotos)
    \/ Return(1)

SpecFanout == InitFanout /\ [][NextFanout]_vars

\* the handler's thread and the pool's workers are threads the system keeps
\* scheduling, and every GET of a photo ends, by its timeout at the latest
FairFanout == SpecFanout /\ WF_vars(FanoutStep(1, FlakyFotos))

----------------------------------------------------------------------------
\* Properties

\* the requests of the threads that are inside a search or a detail request
Served == SeqMaxRequests - reqs_left

IsCheckStep(t) == pc[t] = "idle" /\ pc'[t] \in {"b_hit", "g_check"}

\* C1: while no valid token is stored and several requests ask for the token at
\* the same time, no more than one login call is in flight, and the requests
\* that are being served with a token all hold the same token.
C1_OneLoginSameToken ==
    /\ Cardinality({t \in Threads : pc[t] = "g_post"}) <= 1
    /\ \A t1, t2 \in Threads :
           (Truthy(token[t1]) /\ Truthy(token[t2])) => token[t1] = token[t2]

\* C2: an entry written at time w is served, unchanged, to a search that
\* consults the cache at w <= now < w + 60; at now >= w + 60 the search is a
\* miss, and the entry it then writes replaces the old one and expires 60
\* seconds after the write.
C2_EntryServedWithinTTL ==
    [][/\ IsCheckStep(1) =>
            LET e == search_cache[Lower(termo_busca'[1])]
                w == e.expires_at - CACHE_DURATION_SECONDS
            IN  e # NoEntry =>
                    /\ (w <= now /\ now < w + 60) => pc'[1] = "b_hit"
                    /\ now >= w + 60 => pc'[1] = "g_check"
       /\ (pc[1] = "b_hit" /\ pc'[1] # "b_hit") =>
            /\ pc'[1] = "done"
            /\ resp'[1].data = search_cache[cache_key(1)].data
            /\ search_cache' = search_cache
       /\ (pc[1] = "b_store" /\ pc'[1] # "b_store") =>
            /\ search_cache'[cache_key(1)] =
                   [data |-> resp'[1].data, expires_at |-> now + 60]
            /\ \A k \in Keys \ {cache_key(1)} : search_cache'[k] = search_cache[k]
      ]_vars

\* a search that finds the entry of its key expired
C2_Witness ==
    /\ pc[1] = "b_store"
    /\ search_cache[cache_key(1)] # NoEntry
    /\ now >= search_cache[cache_key(1)].expires_at

\* C3: a search that hits the cache asks for no token, logs in nowhere, issues
\* no search call and no photo lookup, and changes neither cache: the entry
\* keeps its expiry.
C3_HitIsLocal ==
    [][\A t \in Threads :
          /\ (IsCheckStep(t) /\ pc'[t] = "b_hit") =>
                /\ search_cache[Lower(termo_busca'[t])] # NoEntry
                /\ now < search_cache[Lower(termo_busca'[t])].expires_at
                /\ cacheVars' = cacheVars
                /\ totals' = totals
          /\ pc[t] = "b_hit" =>
                /\ calls[t] = NoCalls /\ calls'[t] = NoCalls
                /\ futures[t] = <<>> /\ futures'[t] = <<>>
                /\ pc'[t] \in {"b_hit", "done"}
                /\ pc'[t] = "done" =>
                      /\ cacheVars' = cacheVars
                      /\ totals' = totals
                      /\ resp'[t].kind = "index" /\ resp'[t].from_cache
      ]_vars

\* a hit is answered from the entry the other thread has just stored
C3_Witness ==
    \E t, u \in Threads :
        /\ pc[t] = "done" /\ resp[t].kind = "index" /\ resp[t].from_cache
        /\ calls[t] = NoCalls
        /\ u # t /\ pc[u] = "done" /\ ~resp[u].from_cache /\ resp[u].flash = "none"

\* C4: the search cache changes only when a search request stores its result
\* after its token was truthy, its one search call answered and every photo
\* lookup was collected; a request that ends in an error writes no entry.
C4_OnlySuccessCached ==
    [][/\ search_cache' # search_cache =>
            \E t \in Threads :
                /\ pc[t] = "b_store" /\ pc'[t] = "done"
                /\ Truthy(token[t])
                /\ calls[t].search = 1
                /\ collected[t] = Len(people[t])
                /\ \A i \in 1..Len(futures[t]) : futures[t][i].st = "done"
                /\ resp'[t].flash # "error"
                /\ search_cache'[cache_key(t)].data = resp'[t].data
                /\ Len(resp'[t].data.alunos) = Len(people[t])
                /\ \A k \in Keys \ {cache_key(t)} : search_cache'[k] = search_cache[k]
       /\ \A t \in Threads :
            (pc[t] # "done" /\ pc'[t] = "done" /\ resp'[t].flash = "error") =>
                search_cache' = search_cache
      ]_vars

\* a search call fails and the cache stays without an entry
C4_Witness ==
    \E t \in Threads :
        /\ pc[t] = "done" /\ resp[t].kind = "index" /\ resp[t].flash = "error"
        /\ calls[t].search = 1
        /\ search_cache[cache_key(t)] = NoEntry

\* C5: the token cache changes only in the hands of a login that answered with
\* a token; a login that failed, an empty body included, leaves it as it was.
C5_FailedLoginLeavesCache ==
    [][api_token_cache' # api_token_cache =>
          \E t \in Threads :
              /\ pc[t] \in {"g_set_token", "g_set_expiry"}
              /\ Truthy(new_token[t])
      ]_vars

\* C6: get_sophia_token returns the stored token, with no login, when that
\* token is truthy and now < expires_at; otherwise it logs in once, and after
\* an answer with a token the cache holds that token with expires_at = now +
\* 29 minutes and the caller gets it.
C6_TokenReuseOrOneLogin ==
    [][/\ pc[1] = "g_check" =>
            /\ pc'[1] \in {"g_check", "g_ret", "g_post"}
            /\ pc'[1] = "g_ret" =>
                  /\ Truthy(api_token_cache.token) /\ now < api_token_cache.expires_at
                  /\ totals'.login = totals.login
            /\ pc'[1] = "g_post" =>
                  /\ ~(Truthy(api_token_cache.token) /\ now < api_token_cache.expires_at)
                  /\ totals'.login = totals.login + 1
       /\ pc[1] = "g_ret" =>
            /\ api_token_cache' = api_token_cache
            /\ totals' = totals
            /\ pc'[1] # "g_ret" => token'[1] = api_token_cache.token /\ Truthy(token'[1])
       /\ (pc[1] = "g_set_expiry" /\ pc'[1] # "g_set_expiry" /\ Truthy(new_token[1])) =>
            /\ api_token_cache' =
                   [token |-> new_token[1], expires_at |-> now + 29 * 60]
            /\ token'[1] = new_token[1]
       /\ calls'[1].login <= 1 /\ calls'[1].token <= 1
      ]_vars

\* a stored token that has expired sends the request to the login
C6_Witness ==
    /\ pc[1] = "g_set_expiry"
    /\ Truthy(new_token[1])
    /\ now >= api_token_cache.expires_at
    /\ api_token_cache.expires_at > 0

\* C7: of searches for one key, served one after another by an upstream that
\* answers: the second one, when it ends less than 60 seconds after the first
\* began, leaves the totals at one search call and one token acquisition, with
\* one login; a third one that finds the entry expired is a miss and issues a
\* search call of its own.
C7_SecondSearchIsFree ==
    [][/\ (pc[1] # "done" /\ pc'[1] = "done" /\ Served = 2
              /\ now < CACHE_DURATION_SECONDS) =>
            /\ totals'.search = 1 /\ totals'.token = 1 /\ totals'.login = 1
            /\ resp'[1].from_cache
       /\ (IsCheckStep(1) /\ Served' = 3
              /\ now >= search_cache[Lower(termo_busca'[1])].expires_at) =>
            pc'[1] = "g_check"
       /\ (pc[1] # "done" /\ pc'[1] = "done" /\ Served = 3 /\ ~resp'[1].from_cache) =>
            /\ calls'[1].search = 1
            /\ totals'.search >= 2
      ]_vars

\* the first search fills the cache, the second is served from it, the third
\* comes after the entry expired and goes upstream
C7_Witness ==
    /\ Served = 3 /\ pc[1] = "done" /\ ~resp[1].from_cache
    /\ totals.search = 2 /\ totals.token = 2 /\ totals.login = 1

\* the people a response shows, each with the photo it carries
Shown(r) ==
    IF r.kind = "index" THEN r.data.alunos
    ELSE IF r.kind = "detalhes" THEN r.pais_e_maes \o r.outras_pessoas
    ELSE <<>>

\* C8: a fan-out always runs to its end and hands the handler a result for
\* every code it was given: the reference of a lookup that found a photo, and
\* no photo for a lookup that failed, whatever the other lookups did; the
\* request then answers with its page, never with an error.
C8_FanoutNeverFails ==
    [][/\ \A o \in PhotoOutcomes \ {"foto"} : ~Truthy(buscar_foto(o, 1))
       /\ pc[1] \in {"submit", "collect"} =>
            pc'[1] \in {"submit", "collect", AfterFanout(1)}
       /\ (pc[1] = "collect" /\ pc'[1] = AfterFanout(1)) =>
            /\ Len(futures'[1]) = Len(Codigos(1))
            /\ \A i \in 1..Len(futures'[1]) :
                  LET f == futures'[1][i]
                      m == fotos_mapeadas'[1]
                  IN /\ f.st = "done"
                     /\ f.codigo = Codigos(1)[i]
                     /\ f.foto \in {None, "", FotoRef(f.codigo)}
                     /\ IF \E j \in 1..Len(futures'[1]) :
                               /\ futures'[1][j].codigo = f.codigo
                               /\ Truthy(futures'[1][j].foto)
                        THEN f.codigo \in DOMAIN m /\ m[f.codigo] = FotoRef(f.codigo)
                        ELSE f.codigo \notin DOMAIN m
       /\ (pc[1] \in {"b_store", "d_render"} /\ pc'[1] # pc[1]) =>
            /\ pc'[1] = "done"
            /\ resp'[1].kind \in {"index", "detalhes"}
            /\ resp'[1].flash # "error"
            /\ \A i \in 1..Len(Shown(resp'[1])) :
                  Shown(resp'[1])[i].foto_uri = FotoDe(1, Shown(resp'[1])[i].codigo)
      ]_vars

\* a page is rendered after one lookup failed and another found its photo
C8_Witness ==
    /\ pc[1] = "done"
    /\ resp[1].kind \in {"index", "detalhes"}
    /\ \E i, j \in 1..Len(futures[1]) :
           /\ ~Truthy(futures[1][i].foto)
           /\ Truthy(futures[1][j].foto)
           /\ FotoDe(1, futures[1][j].codigo) = FotoRef(futures[1][j].codigo)

\* C9: when a handler has left the fan-out, to store and render or to render,
\* every lookup of the request was submitted, has finished and was collected;
\* so the response and the cache entry are built from finished lookups only.
C9_JoinBeforeResponse ==
    \A t \in Threads :
        pc[t] \in {"b_store", "d_render", "done"} =>
            /\ Len(futures[t]) = Len(Codigos(t))
            /\ collected[t] = Len(futures[t])
            /\ \A i \in 1..Len(futures[t]) : futures[t][i].st = "done"

\* a detail page about to be rendered after two lookups
C9_Witness ==
    /\ pc[1] = "d_render"
    /\ Len(futures[1]) >= 2
    /\ collected[1] = Len(futures[1])

\* C10: no more than 10 lookups of a fan-out run at any time, and whenever
\* lookups have to wait for a worker the fan-out goes on to its end, where
\* every lookup given to the pool has run.
C10_BoundedPool ==
    /\ [](Cardinality(Running(1)) <= 10)
    /\ (Queued(1) # {}) ~>
           /\ pc[1] = AfterFanout(1)
           /\ Len(futures[1]) = Len(Codigos(1))
           /\ \A i \in 1..Len(futures[1]) : futures[1][i].st = "done"

\* ten lookups run and another one waits
C10_Witness ==
    /\ Cardinality(Running(1)) = 10
    /\ Queued(1) # {}

\* a step in which the request of thread t issues a data call: the student
\* search, one of the three calls of the detail page, or a photo lookup
DataCallStep(t) ==
    \/ calls'[t].search > calls[t].search
    \/ calls'[t].foto > calls[t].foto
    \/ pc[t] \in {"d_resp", "d_aut", "d_aluno"} /\ pc'[t] # pc[t]

InToken(t) == pc[t] \in {"g_check", "g_ret", "g_post", "g_set_token", "g_set_expiry"}

\* C11: within a request the search cache is consulted before anything goes
\* upstream, the token acquisition is the first thing that does, every data
\* call comes after the acquisition has returned a token, and a request whose
\* acquisition failed ends with no data call issued.
C11_CacheThenTokenThenData ==
    [][/\ IsCheckStep(1) => calls'[1] = NoCalls /\ totals' = totals
       /\ (pc[1] # "g_check" /\ pc'[1] = "g_check") => pc[1] = "idle"
       /\ calls'[1].token > calls[1].token =>
            /\ pc[1] = "g_check"
            /\ calls[1] = NoCalls
       /\ DataCallStep(1) =>
            /\ ~InToken(1)
            /\ calls[1].token = 1
            /\ Truthy(token[1])
       /\ (InToken(1) /\ pc'[1] = "done") =>
            /\ ~Truthy(token'[1])
            /\ resp'[1].flash = "error"
            /\ calls'[1].search = 0 /\ calls'[1].foto = 0
            /\ futures'[1] = <<>>
       /\ (pc[1] = "done" /\ ~Truthy(token[1]) /\ calls[1].token = 1) =>
            /\ calls[1].search = 0 /\ calls[1].foto = 0
            /\ pc'[1] \in {"done", "idle"}
      ]_vars

\* a detail request whose login failed ends with the error, no data call made
C11_Witness ==
    /\ pc[1] = "done"
    /\ IsDetail(1)
    /\ ~Truthy(token[1])
    /\ calls[1] = [token |-> 1, login |-> 1, search |-> 0, foto |-> 0]
    /\ resp[1] = [kind |-> "redirect", flash |-> "error"]

\* C12: the entry a search stores lies under the case-folded search string,
\* and a search whose case-folded string is the key of a live entry is served
\* that entry's data, the result of the search that stored it, with nothing
\* going upstream.
C12_KeyIsCaseFolded ==
    [][/\ (pc[1] = "b_store" /\ pc'[1] = "done") =>
            LET e == search_cache'[Lower(termo_busca[1])]
            IN /\ e # NoEntry
               /\ e.data = resp'[1].data
               /\ e.data.busca_anterior = termo_busca[1]
       /\ IsCheckStep(1) =>
            \A k \in Keys :
                (/\ k = Lower(termo_busca'[1])
                 /\ search_cache[k] # NoEntry
                 /\ now < search_cache[k].expires_at) => pc'[1] = "b_hit"
       /\ (pc[1] = "b_hit" /\ pc'[1] = "done") =>
            LET e == search_cache[Lower(termo_busca[1])]
            IN /\ resp'[1].data = e.data
               /\ Lower(e.data.busca_anterior) = Lower(termo_busca[1])
               /\ calls'[1] = NoCalls
               /\ totals' = totals
      ]_vars

\* a search is served the result stored by a search in another spelling
C12_Witness ==
    /\ pc[1] = "done"
    /\ resp[1].kind = "index" /\ resp[1].from_cache
    /\ resp[1].data.busca_anterior # termo_busca[1]
    /\ Served = 2 /\ now = 0

\* thread t has checked the token entry, has logged in, and is about to write
\* the entry (lines 50-51)
AboutToWriteToken(t) == pc[t] \in {"g_set_token", "g_set_expiry"}

\* thread t has found no live entry for its key and is about to write one
AboutToWriteEntry(t) == pc[t] = "b_store"

\* C13: no request writes the token entry, or the entry of a search key,
\* between another request's check of that entry and that request's own
\* write to it.
C13_ReadCheckWriteExclusive ==
    [][\A t, u \in Threads :
          t # u =>
             /\ (AboutToWriteToken(t) /\ api_token_cache' # api_token_cache) =>
                    ~AboutToWriteToken(u)
             /\ (AboutToWriteEntry(t) /\ search_cache' # search_cache) =>
                    ~(AboutToWriteEntry(u) /\ cache_key(u) = cache_key(t))
      ]_vars

\* the words of a search string, normalized
Termos(q) == [i \in 1..Len(Split(q)) |-> normalizar_texto(Split(q)[i])]

\* C14: the list a search computes from the upstream answer holds, in the
\* answer's order, exactly the students whose normalized name contains every
\* normalized word of the search string; with no word it holds them all. The
\* page and the entry of the search list these students.
C14_FilterKeepsAllWordMatches ==
    [][/\ (pc[1] = "b_search" /\ pc'[1] # "b_search") =>
            LET q == termo_busca[1]
                Kept(a) == \A i \in 1..Len(Termos(q)) :
                               Contains(Termos(q)[i], normalizar_texto(a.nome))
            IN /\ people'[1] = SelectSeq(FilterAlunos, Kept)
               /\ Termos(q) = <<>> => people'[1] = FilterAlunos
       /\ (pc[1] = "b_store" /\ pc'[1] = "done") =>
            /\ Len(resp'[1].data.alunos) = Len(people[1])
            /\ \A i \in 1..Len(people[1]) :
                  /\ resp'[1].data.alunos[i].codigo = people[1][i].codigo
                  /\ resp'[1].data.alunos[i].nome = people[1][i].nome
       /\ Termos(SilvaAna) = <<<<"s", "i", "l", "v", "a">>, ana>>
       /\ Termos(ana_costa) = <<ana, <<"c", "o", "s", "t", "a">>>>
       /\ Termos(Jose) = <<jose>>
       /\ Termos(Blank) = <<>>
      ]_vars

\* two words in another order than the name's keep the student, listed twice
\* upstream, and drop the namesake
C14_Witness ==
    /\ pc[1] = "b_store"
    /\ termo_busca[1] = SilvaAna
    /\ people[1] = <<Aluno(1, AnaSilva), Aluno(1, AnaSilva)>>

\* C15: a login that answered with a token replaces the token entry as a
\* whole: every step in which it writes the entry leaves the login's token
\* together with the login's expiry, so no thread sees the token of one login
\* with the expiry of another or of none.
C15_TokenEntryReplacedWhole ==
    [][\A t \in Threads :
          (AboutToWriteToken(t) /\ pc'[t] # pc[t] /\ Truthy(new_token[t])) =>
              api_token_cache' =
                  [token |-> new_token[t], expires_at |-> now + 29 * 60]
      ]_vars

\* C16: a detail request one of whose three data calls failed, by raising
\* or by an error answer, ends with the error flash and the redirect.
C16_DetailCallFailureIsFatal ==
    (pc[1] = "done" /\ IsDetail(1) /\ detail[1].failed # {}) =>
        resp[1] = [kind |-> "redirect", flash |-> "error"]

\* C17: the search cache changes only in the store of a search that did not
\* fail, and then only at that search's key; no step of a search that ends in
\* an error and no step of a detail request changes it, and a detail request
\* goes for its token whatever the cache holds.
C17_OtherKeysUntouched ==
    [][/\ search_cache' # search_cache =>
            /\ ~IsDetail(1)
            /\ pc[1] = "b_store" /\ pc'[1] = "done"
            /\ resp'[1].flash # "error"
            /\ \A k \in Keys :
                  k # Lower(termo_busca[1]) => search_cache'[k] = search_cache[k]
       /\ IsDetail(1) => search_cache' = search_cache
       /\ (pc[1] = "idle" /\ detail'[1] # NoDetail) => pc'[1] = "g_check"
      ]_vars

\* a detail page is rendered while the entries of two searches lie in the cache
C17_Witness ==
    /\ pc[1] = "done"
    /\ IsDetail(1)
    /\ resp[1].kind = "detalhes"
    /\ search_cache[ana] # NoEntry
    /\ search_cache[Lower(Jose)] # NoEntry

\* C18: no fan-out is given the same code twice: the futures of a request
\* are for pairwise different codes.
C18_NoCodeSubmittedTwice ==
    \A t \in Threads :
        \A i, j \in 1..Len(futures[t]) :
            i # j => futures[t][i].codigo # futures[t][j].codigo

\* C19: a search that got its token and its answer stores an entry whether
\* or not its photo lookups found photos: the entry lists every student of
\* the result, with the photo of a lookup that found one and no photo for a
\* lookup that failed or found none; a hit returns that entry as it is, with
\* no photo lookup made.
C19_MissingPhotosAreCached ==
    [][/\ (pc[1] = "b_store" /\ pc'[1] # "b_store") =>
            LET e == search_cache'[Lower(termo_busca[1])]
            IN /\ e # NoEntry
               /\ e.expires_at = now + 60
               /\ Len(e.data.alunos) = Len(futures[1])
               /\ \A i \in 1..Len(futures[1]) :
                     /\ e.data.alunos[i].codigo = futures[1][i].codigo
                     /\ e.data.alunos[i].foto_uri =
                            IF Truthy(futures[1][i].foto)
                            THEN futures[1][i].foto ELSE None
       /\ pc[1] = "b_hit" =>
            /\ futures'[1] = <<>>
            /\ calls'[1].foto = 0
            /\ pc'[1] # "b_hit" =>
                  /\ pc'[1] = "done"
                  /\ resp'[1].data = search_cache[Lower(termo_busca[1])].data
                  /\ search_cache' = search_cache
      ]_vars

\* a hit returns a list in which one student has a photo and another has none
C19_Witness ==
    /\ pc[1] = "done"
    /\ resp[1].kind = "index" /\ resp[1].from_cache
    /\ \E i, j \in 1..Len(resp[1].data.alunos) :
           /\ resp[1].data.alunos[i].foto_uri = None
           /\ resp[1].data.alunos[j].foto_uri = FotoRef(resp[1].data.alunos[j].codigo)

\* the keys that have an entry in a search cache
Present(cache) == {k \in Keys : cache[k] # NoEntry}

\* C20: no step removes an entry of the search cache, expired or not: a key
\* that is present stays present, and the number of keys present grows by one
\* exactly when a search stores the result of a key that had no entry, so it
\* is the number of keys ever stored.
C20_NoEviction ==
    [][/\ Present(search_cache) \subseteq Present(search_cache')
       /\ Cardinality(Present(search_cache')) =
              Cardinality(Present(search_cache)) +
                  (IF /\ pc[1] = "b_store" /\ pc'[1] = "done"
                      /\ search_cache[Lower(termo_busca[1])] = NoEntry
                   THEN 1 ELSE 0)
      ]_vars

\* an entry that expired is still in the map when a search goes upstream for
\* another key
C20_Witness ==
    /\ pc[1] = "b_search"
    /\ \E k \in Keys :
           /\ search_cache[k] # NoEntry
           /\ now >= search_cache[k].expires_at
           /\ k # Lower(termo_busca[1])

====
